---------------------------- MODULE Spec2Model ----------------------------
(***************************************************************************)
(* The object segmenter of ai-stamp-cropper (hook useObjectSegmenter):     *)
(* segmentImage draws a bitmap, thresholds its alpha channel, dilates the  *)
(* mask in two passes, labels the 4-connected components of the dilated    *)
(* mask by breadth-first search, refines every component that passes the   *)
(* noise filter to a padded, parity-adjusted box, and extracts one object  *)
(* per box through an asynchronous PNG encoding.                           *)
(*                                                                         *)
(* A pixel is modelled by its alpha value: data[i] stands for the source's *)
(* data[i * 4 + 3], the only channel segmentImage reads.                   *)
(***************************************************************************)
EXTENDS Integers, Sequences, FiniteSets, TLC

VARIABLES
    files,          \* the calls the caller makes, in order: <<[bitmap, sourceId]>>
    started,        \* how many of them have been made
    isSegmenting,   \* the hook's state
    now,            \* the wall clock read by Date.now()
    urlCount,       \* blob URLs handed out by URL.createObjectURL
    blobs,          \* blobs[u]: the blob that URL u names
    pc,             \* position of the call that is running synchronously
    cur,            \* that call (0: none, the event loop is idle)
    width, height,  \* locals of the running call
    data,
    binaryMap,
    tempMap,
    dilatedMap,
    visited,
    scanIdx,        \* y * width + x of the labeling scan
    components,     \* every Component the scan has found (minX.., componentPixels)
    objects,        \* the boxes pushed by the scan
    tasks,          \* tasks[c]: the promises of call c's objects.map callbacks
    calls,          \* calls[c]: call c's promise, and the error its catch logged
    \* useBackgroundRemoval and the worker it owns
    workerRef,      \* workerRef.current: "null" until the effect has run
    status,         \* the hook's state
    progress,
    listeners,      \* the processImage calls whose onMessage is registered
    promises,       \* promises[p]: the promise of the p-th processImage call
    inbox,          \* messages posted to the worker, not yet dispatched
    outbox,         \* messages posted by the worker, not yet dispatched
    jobs,           \* jobs[j]: the worker's handler for the j-th 'process' message
    instance,       \* BackgroundRemover.instance
    modelLoads,     \* calls of AutoModel.from_pretrained
    processorLoads, \* calls of AutoProcessor.from_pretrained
    \* App
    appState,
    totalFiles,
    currentFileIndex,
    sourceImages,
    processedBitmaps,
    allSegments,
    handle          \* the handleFiles call: its position and its locals

workerVars == <<workerRef, status, progress, listeners, promises, inbox, outbox, jobs,
                instance, modelLoads, processorLoads>>

appVars == <<appState, totalFiles, currentFileIndex, sourceImages, processedBitmaps,
             allSegments, handle>>

vars == <<files, started, isSegmenting, now, urlCount, blobs, pc, cur, width, height,
          data, binaryMap, tempMap, dilatedMap, visited, scanIdx, components,
          objects, tasks, calls, workerVars, appVars>>

locals == <<width, height, data, binaryMap, tempMap, dilatedMap, visited,
            scanIdx, components, objects>>

(***************************************************************************)
(* Program constants.                                                      *)
(***************************************************************************)
ALPHA_THRESHOLD == 20
kernelSize == 15
PADDING == 10
NoiseArea == 900
NoisePixels == 200

(***************************************************************************)
(* Bounds of the model.                                                    *)
(***************************************************************************)
MaxPainted == 2     \* pixels of a bitmap whose alpha is not 0
MaxCalls == 2       \* segmentImage calls of one behaviour
MaxNow == 1         \* the clock's last value

Max(a, b) == IF a > b THEN a ELSE b
Min(a, b) == IF a < b THEN a ELSE b

Range(s) == {s[i] : i \in 1..Len(s)}

\* The smallest and the largest of a non-empty set of integers.
SetMin(S) == CHOOSE m \in S : \A o \in S : m <= o
SetMax(S) == CHOOSE m \in S : \A o \in S : m >= o

\* The least k with 2^k >= n: the depth that unrolls a loop of at most n rounds.
RECURSIVE Log2Ceil(_)
Log2Ceil(n) == IF n <= 1 THEN 0 ELSE 1 + Log2Ceil((n + 1) \div 2)

(***************************************************************************)
(* Bitmaps.  A bitmap is its size and the alpha of its painted pixels; all *)
(* other pixels are fully transparent.                                     *)
(***************************************************************************)
Sizes == {<<14, 14>>, <<15, 16>>, <<32, 32>>, <<33, 17>>}

AlphaChoices == {20, 21}

\* Pixels a bitmap of the pool may paint: the corners, the centre, and (1, 1).
Positions(w, h) ==
    {0, w - 1, (h - 1) * w + (w - 1), (h \div 2) * w + (w \div 2), w + 1}

Bitmaps ==
    UNION {
        UNION { [P -> AlphaChoices] \X {sz} :
                P \in {Q \in SUBSET Positions(sz[1], sz[2]) : Cardinality(Q) <= MaxPainted} }
        : sz \in Sizes }

Bitmap(pair) == [width |-> pair[2][1], height |-> pair[2][2], alpha |-> pair[1]]

\* ctx.getImageData(0, 0, width, height).data, alpha channel
GetImageData(bitmap) ==
    [i \in 0..(bitmap.width * bitmap.height - 1) |->
        IF i \in DOMAIN bitmap.alpha THEN bitmap.alpha[i] ELSE 0]

Zeros(n) == [i \in 0..(n - 1) |-> 0]

(***************************************************************************)
(* 2. Binary map and dilation.                                             *)
(***************************************************************************)
\* BinaryMapOf with >= for >.
BinaryMapOfInclusive(d, w, h) ==
    [i \in 0..(w * h - 1) |-> IF d[i] >= ALPHA_THRESHOLD THEN 1 ELSE 0]

\* BinaryMapOf that takes every pixel that is not fully transparent.
BinaryMapOfNonZero(d, w, h) ==
    [i \in 0..(w * h - 1) |-> IF d[i] > 0 THEN 1 ELSE 0]

BinaryMapOf(d, w, h) ==
    [i \in 0..(w * h - 1) |-> IF d[i] > ALPHA_THRESHOLD THEN 1 ELSE 0]

\* The indices at which map m is set.
SetPixels(m, n) == {j \in 0..(n - 1) : m[j] = 1}

\* The map of n pixels that is set at the indices written; a write past
\* either end of a typed array is dropped.
MapOf(written, n) == [i \in 0..(n - 1) |-> IF i \in written THEN 1 ELSE 0]

\* HorizontalDilation without Math.max / Math.min: the run of a pixel near the
\* left or right edge spills into the neighbouring rows.
HorizontalDilationUnclamped(bm, w, h) ==
    MapOf(UNION {{((j \div w) * w) + k :
                     k \in ((j % w) - kernelSize)..((j % w) + kernelSize)} :
                 j \in SetPixels(bm, w * h)},
          w * h)

\* HorizontalDilation that takes kernelSize for the width of the run, not for
\* its radius.
HorizontalDilationHalfKernel(bm, w, h) ==
    MapOf(UNION {{((j \div w) * w) + k :
                     k \in Max(0, (j % w) - (kernelSize \div 2))
                             ..Min(w - 1, (j % w) + (kernelSize \div 2))} :
                 j \in SetPixels(bm, w * h)},
          w * h)

\* Pass 1: every set pixel (x, y) sets tempMap[y * width + k] for k in
\* start..end.  Lines 41-54.
HorizontalDilation(bm, w, h) ==
    MapOf(UNION {{((j \div w) * w) + k :
                     k \in Max(0, (j % w) - kernelSize)..Min(w - 1, (j % w) + kernelSize)} :
                 j \in SetPixels(bm, w * h)},
          w * h)

\* VerticalDilation whose inner loop starts at start + 1.
VerticalDilationSkipsStart(tm, w, h) ==
    MapOf(UNION {{(k * w) + (j % w) :
                     k \in (Max(0, (j \div w) - kernelSize) + 1)
                             ..Min(h - 1, (j \div w) + kernelSize)} :
                 j \in SetPixels(tm, w * h)},
          w * h)

\* VerticalDilation that takes kernelSize for the height of the run, not for
\* its radius.
VerticalDilationHalfKernel(tm, w, h) ==
    MapOf(UNION {{(k * w) + (j % w) :
                     k \in Max(0, (j \div w) - (kernelSize \div 2))
                             ..Min(h - 1, (j \div w) + (kernelSize \div 2))} :
                 j \in SetPixels(tm, w * h)},
          w * h)

\* Pass 2: every set pixel (x, y) of tempMap sets dilatedMap[k * width + x]
\* for k in start..end.  Lines 56-68.
VerticalDilation(tm, w, h) ==
    MapOf(UNION {{(k * w) + (j % w) :
                     k \in Max(0, (j \div w) - kernelSize)..Min(h - 1, (j \div w) + kernelSize)} :
                 j \in SetPixels(tm, w * h)},
          w * h)

(***************************************************************************)
(* 3. Connected component labeling.                                        *)
(***************************************************************************)
getIdx(x, y, w) == y * w + x

\* One neighbour of the pixel just dequeued: lines 109-115.
BfsVisit(s, nx, ny, dm, w, h) ==
    CHOOSE r \in {IF nx >= 0 /\ nx < w /\ ny >= 0 /\ ny < h
                  THEN LET nIdx == getIdx(nx, ny, w)
                       IN IF t.visited[nIdx] = 0 /\ dm[nIdx] = 1
                          THEN [t EXCEPT !.visited[nIdx] = 1,
                                         !.queue = Append(@, nIdx)]
                          ELSE t
                  ELSE t : t \in {s}} : TRUE

\* BfsStep that never raises maxY.
BfsStepBoxTypo(s, dm, w, h) ==
    LET currIdx == s.queue[s.head + 1]
        cx == currIdx % w
        cy == currIdx \div w
        s0 == [s EXCEPT !.head = @ + 1,
                        !.componentPixels = Append(@, currIdx),
                        !.minX = IF cx < @ THEN cx ELSE @,
                        !.maxX = IF cx > @ THEN cx ELSE @,
                        !.minY = IF cy < @ THEN cy ELSE @]
        s1 == BfsVisit(s0, cx + 1, cy, dm, w, h)
        s2 == BfsVisit(s1, cx - 1, cy, dm, w, h)
        s3 == BfsVisit(s2, cx, cy + 1, dm, w, h)
    IN BfsVisit(s3, cx, cy - 1, dm, w, h)

\* BfsStep that also visits the four diagonal neighbours (8-connectivity).
BfsStepDiagonal(s, dm, w, h) ==
    LET currIdx == s.queue[s.head + 1]
        cx == currIdx % w
        cy == currIdx \div w
        s0 == [s EXCEPT !.head = @ + 1,
                        !.componentPixels = Append(@, currIdx),
                        !.minX = IF cx < @ THEN cx ELSE @,
                        !.maxX = IF cx > @ THEN cx ELSE @,
                        !.minY = IF cy < @ THEN cy ELSE @,
                        !.maxY = IF cy > @ THEN cy ELSE @]
        s1 == BfsVisit(s0, cx + 1, cy, dm, w, h)
        s2 == BfsVisit(s1, cx - 1, cy, dm, w, h)
        s3 == BfsVisit(s2, cx, cy + 1, dm, w, h)
        s4 == BfsVisit(s3, cx, cy - 1, dm, w, h)
        s5 == BfsVisit(s4, cx + 1, cy + 1, dm, w, h)
        s6 == BfsVisit(s5, cx - 1, cy + 1, dm, w, h)
        s7 == BfsVisit(s6, cx + 1, cy - 1, dm, w, h)
    IN BfsVisit(s7, cx - 1, cy - 1, dm, w, h)

\* One round of while (head < queue.length): lines 90-116.
\* BfsStep that marks a pixel visited when it leaves the queue, not when it
\* enters it.
BfsStepMarksLate(s, dm, w, h) ==
    LET currIdx == s.queue[s.head + 1]
        cx == currIdx % w
        cy == currIdx \div w
        s0 == [s EXCEPT !.head = @ + 1,
                        !.visited[currIdx] = 1,
                        !.componentPixels = Append(@, currIdx),
                        !.minX = IF cx < @ THEN cx ELSE @,
                        !.maxX = IF cx > @ THEN cx ELSE @,
                        !.minY = IF cy < @ THEN cy ELSE @,
                        !.maxY = IF cy > @ THEN cy ELSE @]
        Late(t, nx, ny) ==
            IF /\ nx >= 0 /\ nx < w /\ ny >= 0 /\ ny < h
               /\ t.visited[getIdx(nx, ny, w)] = 0
               /\ dm[getIdx(nx, ny, w)] = 1
            THEN [t EXCEPT !.queue = Append(@, getIdx(nx, ny, w))]
            ELSE t
    IN Late(Late(Late(Late(s0, cx + 1, cy), cx - 1, cy), cx, cy + 1), cx, cy - 1)

BfsStep(s, dm, w, h) ==
    LET currIdx == s.queue[s.head + 1]
        cx == currIdx % w
        cy == currIdx \div w
        s0 == [s EXCEPT !.head = @ + 1,
                        !.componentPixels = Append(@, currIdx),
                        !.minX = IF cx < @ THEN cx ELSE @,
                        !.maxX = IF cx > @ THEN cx ELSE @,
                        !.minY = IF cy < @ THEN cy ELSE @,
                        !.maxY = IF cy > @ THEN cy ELSE @]
        s1 == BfsVisit(s0, cx + 1, cy, dm, w, h)
        s2 == BfsVisit(s1, cx - 1, cy, dm, w, h)
        s3 == BfsVisit(s2, cx, cy + 1, dm, w, h)
    IN BfsVisit(s3, cx, cy - 1, dm, w, h)

\* The while loop, run for at most 2^k rounds.  The state s is evaluated once
\* (t) however often the body reads it.
RECURSIVE BfsLoop(_, _, _, _, _)
BfsLoop(s, k, dm, w, h) ==
    CHOOSE r \in {IF t.head >= Len(t.queue) THEN t
                  ELSE IF k = 0 THEN BfsStep(t, dm, w, h)
                  ELSE BfsLoop(BfsLoop(t, k - 1, dm, w, h), k - 1, dm, w, h) :
                  t \in {s}} : TRUE

\* The flood fill started at idx = getIdx(x, y): lines 82-117.
Bfs(idx, vis, dm, w, h) ==
    BfsLoop([queue |-> <<idx>>, head |-> 0,
             visited |-> [vis EXCEPT ![idx] = 1],
             componentPixels |-> <<>>,
             minX |-> idx % w, maxX |-> idx % w,
             minY |-> idx \div w, maxY |-> idx \div w],
            Log2Ceil(w * h), dm, w, h)

\* Whether the scan stops at idx: line 79.
IsSeed(idx, vis, dm) == ~(vis[idx] = 1 \/ dm[idx] = 0)

(***************************************************************************)
(* Noise filter, tight refit, padding and parity: lines 119-167.           *)
(***************************************************************************)
\* The filter with >= for >.
PassesNoiseFilterInclusive(c) ==
    LET widthBox == c.maxX - c.minX + 1
        heightBox == c.maxY - c.minY + 1
        areaBox == widthBox * heightBox
    IN areaBox >= NoiseArea \/ Len(c.componentPixels) >= NoisePixels

\* The filter without its pixel count.
PassesNoiseFilterAreaOnly(c) ==
    LET widthBox == c.maxX - c.minX + 1
        heightBox == c.maxY - c.minY + 1
        areaBox == widthBox * heightBox
    IN areaBox > NoiseArea

\* if (areaBox > 900 || componentPixels.length > 200): lines 119-124.
PassesNoiseFilter(c) ==
    LET widthBox == c.maxX - c.minX + 1
        heightBox == c.maxY - c.minY + 1
        areaBox == widthBox * heightBox
    IN areaBox > NoiseArea \/ Len(c.componentPixels) > NoisePixels

\* The refit scan with < for <= in both loops.
ContentExclusive(c, d, w) ==
    {p \in (c.minX..(c.maxX - 1)) \X (c.minY..(c.maxY - 1)) : d[p[2] * w + p[1]] > ALPHA_THRESHOLD}

\* The pixels (rx, ry) of the component's box whose alpha exceeds the
\* threshold: lines 130-139.
Content(c, d, w) ==
    {p \in (c.minX..c.maxX) \X (c.minY..c.maxY) : d[p[2] * w + p[1]] > ALPHA_THRESHOLD}

TightBox(c, d, w, h) ==
    LET content == Content(c, d, w)
    IN [hasContent |-> content # {},
        rMinX |-> SetMin({w} \cup {p[1] : p \in content}),
        rMaxX |-> SetMax({0} \cup {p[1] : p \in content}),
        rMinY |-> SetMin({h} \cup {p[2] : p \in content}),
        rMaxY |-> SetMax({0} \cup {p[2] : p \in content})]

\* The padding without Math.max and Math.min.
PaddedBoxUnclamped(t, w, h) ==
    [minX |-> t.rMinX - PADDING,
     minY |-> t.rMinY - PADDING,
     maxX |-> t.rMaxX + PADDING,
     maxY |-> t.rMaxY + PADDING]

\* fMinX, fMinY, fMaxX, fMaxY: lines 142-146.
PaddedBox(t, w, h) ==
    [minX |-> Max(0, t.rMinX - PADDING),
     minY |-> Max(0, t.rMinY - PADDING),
     maxX |-> Min(w - 1, t.rMaxX + PADDING),
     maxY |-> Min(h - 1, t.rMaxY + PADDING)]

\* EvenBox that cuts the right or the bottom edge when neither edge can move
\* outward.
EvenBoxCutsWhenBlocked(f, w, h) ==
    LET boxWidth == f.maxX - f.minX + 1
        boxHeight == f.maxY - f.minY + 1
        fx == IF boxWidth % 2 # 0
              THEN IF f.maxX < w - 1 THEN [f EXCEPT !.maxX = @ + 1]
                   ELSE IF f.minX > 0 THEN [f EXCEPT !.minX = @ - 1]
                   ELSE [f EXCEPT !.maxX = @ - 1]
              ELSE f
    IN IF boxHeight % 2 # 0
       THEN IF fx.maxY < h - 1 THEN [fx EXCEPT !.maxY = @ + 1]
            ELSE IF fx.minY > 0 THEN [fx EXCEPT !.minY = @ - 1]
            ELSE [fx EXCEPT !.maxY = @ - 1]
       ELSE fx

\* EvenBox that moves the left or the top edge inward when the right or the
\* bottom edge is at the border.
EvenBoxShrinks(f, w, h) ==
    LET boxWidth == f.maxX - f.minX + 1
        boxHeight == f.maxY - f.minY + 1
        fx == IF boxWidth % 2 # 0
              THEN IF f.maxX < w - 1 THEN [f EXCEPT !.maxX = @ + 1]
                   ELSE IF f.minX > 0 THEN [f EXCEPT !.minX = @ + 1]
                   ELSE f
              ELSE f
    IN IF boxHeight % 2 # 0
       THEN IF fx.maxY < h - 1 THEN [fx EXCEPT !.maxY = @ + 1]
            ELSE IF fx.minY > 0 THEN [fx EXCEPT !.minY = @ + 1]
            ELSE fx
       ELSE fx

\* EvenBox that tries the left and the top edge first.
EvenBoxLeftFirst(f, w, h) ==
    LET boxWidth == f.maxX - f.minX + 1
        boxHeight == f.maxY - f.minY + 1
        fx == IF boxWidth % 2 # 0
              THEN IF f.minX > 0 THEN [f EXCEPT !.minX = @ - 1]
                   ELSE IF f.maxX < w - 1 THEN [f EXCEPT !.maxX = @ + 1]
                   ELSE f
              ELSE f
    IN IF boxHeight % 2 # 0
       THEN IF fx.minY > 0 THEN [fx EXCEPT !.minY = @ - 1]
            ELSE IF fx.maxY < h - 1 THEN [fx EXCEPT !.maxY = @ + 1]
            ELSE fx
       ELSE fx

\* EvenBox that grows the right and the bottom edge wherever they are.
EvenBoxNoBoundaryCheck(f, w, h) ==
    LET boxWidth == f.maxX - f.minX + 1
        boxHeight == f.maxY - f.minY + 1
        fx == IF boxWidth % 2 # 0 THEN [f EXCEPT !.maxX = @ + 1] ELSE f
    IN IF boxHeight % 2 # 0 THEN [fx EXCEPT !.maxY = @ + 1] ELSE fx

EvenBox(f, w, h) ==
    LET boxWidth == f.maxX - f.minX + 1
        boxHeight == f.maxY - f.minY + 1
        fx == IF boxWidth % 2 # 0
              THEN IF f.maxX < w - 1 THEN [f EXCEPT !.maxX = @ + 1]
                   ELSE IF f.minX > 0 THEN [f EXCEPT !.minX = @ - 1]
                   ELSE f
              ELSE f
    IN IF boxHeight % 2 # 0
       THEN IF fx.maxY < h - 1 THEN [fx EXCEPT !.maxY = @ + 1]
            ELSE IF fx.minY > 0 THEN [fx EXCEPT !.minY = @ - 1]
            ELSE fx
       ELSE fx

\* What one component adds to objects: nothing, or its box.
Refine(c, d, w, h) ==
    IF PassesNoiseFilter(c)
    THEN LET t == TightBox(c, d, w, h)
         IN IF t.hasContent
            THEN <<EvenBox(PaddedBox(t, w, h), w, h)>>
            ELSE <<>>
    ELSE <<>>

\* The first pixel at or after from where the scan stops, or n when it runs off.
FirstSeed(from, vis, dm, n) ==
    IF \E i \in from..(n - 1) : IsSeed(i, vis, dm)
    THEN CHOOSE i \in from..(n - 1) :
            IsSeed(i, vis, dm) /\ \A j \in from..(i - 1) : ~IsSeed(j, vis, dm)
    ELSE n

\* A box put in front of the list, in the manner of objects.unshift.
Unshift(objs, found) == found \o objs

\* objects.push: line 161.  found holds the box of the component, or nothing
\* when the component is dropped.
Push(objs, found) == objs \o found

\* The scan from pixel from on, as a function: lines 75-169.
RECURSIVE ScanFrom(_, _, _, _, _, _, _)
ScanFrom(from, vis, objs, d, dm, w, h) ==
    LET idx == FirstSeed(from, vis, dm, w * h)
    IN IF idx = w * h THEN objs
       ELSE LET s == Bfs(idx, vis, dm, w, h)
                c == [minX |-> s.minX, maxX |-> s.maxX, minY |-> s.minY,
                      maxY |-> s.maxY, componentPixels |-> s.componentPixels]
            IN ScanFrom(idx + 1, s.visited, Push(objs, Refine(c, d, w, h)), d, dm, w, h)

\* The boxes segmentImage pushes for a bitmap, as a function of the bitmap
\* alone: lines 20-169.
SegmentRegions(bitmap) ==
    LET w == bitmap.width
        h == bitmap.height
        d == GetImageData(bitmap)
        dm == VerticalDilation(HorizontalDilation(BinaryMapOf(d, w, h), w, h), w, h)
    IN ScanFrom(0, Zeros(w * h), <<>>, d, dm, w, h)

(***************************************************************************)
(* 4. Extraction: lines 172-206.                                           *)
(***************************************************************************)
\* objWidth, objHeight: lines 173-174.
BoxWidth(o) == o.maxX - o.minX + 1
BoxHeight(o) == o.maxY - o.minY + 1

\* The alpha of the bitmap at (x, y); nothing is drawn from outside it.
AlphaAt(bitmap, x, y) ==
    IF /\ 0 <= x /\ x < bitmap.width
       /\ 0 <= y /\ y < bitmap.height
       /\ (y * bitmap.width + x) \in DOMAIN bitmap.alpha
    THEN bitmap.alpha[y * bitmap.width + x]
    ELSE 0

\* drawImage with the source rectangle at the origin of the bitmap.
DrawImageFromOrigin(bitmap, sx, sy, sw, sh) ==
    [k \in 0..(sw * sh - 1) |-> AlphaAt(bitmap, k % sw, k \div sw)]

\* objCtx.drawImage(imageBitmap, sx, sy, sw, sh, 0, 0, sw, sh) on a fresh
\* sw x sh canvas: the alpha of the canvas, row-major.  Lines 176-183.
DrawImage(bitmap, sx, sy, sw, sh) ==
    [k \in 0..(sw * sh - 1) |-> AlphaAt(bitmap, sx + (k % sw), sy + (k \div sw))]

\* canvas.convertToBlob({type: 'image/png'}): PNG keeps every pixel of the
\* canvas and its size.  Line 185.
ConvertToBlob(canvas, w, h) ==
    [type |-> "image/png", width |-> w, height |-> h, pixels |-> canvas]

\* The promise of one objects.map callback, up to its await: lines 173-185.
NewTask(obj, ctxOk, bitmap) ==
    [state |-> IF ctxOk THEN "pending" ELSE "rejected",
     error |-> IF ctxOk THEN "none" ELSE "Ctx error",
     obj |-> obj,
     canvas |-> IF ctxOk
                THEN DrawImage(bitmap, obj.minX, obj.minY, BoxWidth(obj), BoxHeight(obj))
                ELSE <<>>,
     value |-> <<>>]

\* The decimal numeral of n, one character per digit: the template literal
\* of line 189 formats index and Date.now() so.
DigitChars == <<"0", "1", "2", "3", "4", "5", "6", "7", "8", "9">>

RECURSIVE Digits(_)
Digits(n) ==
    IF n < 10 THEN <<DigitChars[n + 1]>>
    ELSE Append(Digits(n \div 10), DigitChars[(n % 10) + 1])

\* An id without the index: `obj-${sourceId}-${Date.now()}`.
ObjectIdNoIndex(sourceId, index, t) ==
    <<"obj", "-", sourceId, "-">> \o Digits(t)

\* `obj-${sourceId}-${index}-${Date.now()}` as a string of characters: line
\* 189.  The prefix and the sourceId stand as one character each.
ObjectId(sourceId, index, t) ==
    <<"obj", "-", sourceId, "-">> \o Digits(index) \o <<"-">> \o Digits(t)

\* The record a callback returns once its blob is there: lines 186-196.
SegmentedObject(obj, index, sourceId, url, t) ==
    [id |-> ObjectId(sourceId, index, t),
     sourceId |-> sourceId,
     url |-> url,
     width |-> obj.maxX - obj.minX + 1,
     height |-> obj.maxY - obj.minY + 1,
     x |-> obj.minX,
     y |-> obj.minY]

\* A catch that rethrows: the call's promise rejects.
CatchRethrows(e) ==
    [status |-> "rejected", value |-> <<>>, error |-> e]

\* catch (e): lines 202-206.
Catch(e) ==
    [status |-> "resolved", value |-> <<>>, error |-> e]

\* What Promise.all rejects with: a callback that throws 'Ctx error' has rejected
\* before any blob can.
Rejection(ts) ==
    IF \E i \in 1..Len(ts) : ts[i].error = "Ctx error" THEN "Ctx error" ELSE "encode"

\* Settle in the manner of Promise.allSettled: the fulfilled callbacks' records
\* are returned, the rejected ones skipped.
SettleKeepsFulfilled(ts) ==
    [status |-> "resolved",
     value |-> [k \in 1..Cardinality({i \in 1..Len(ts) : ts[i].state = "fulfilled"}) |->
                  ts[CHOOSE i \in 1..Len(ts) :
                        /\ ts[i].state = "fulfilled"
                        /\ Cardinality({j \in 1..i : ts[j].state = "fulfilled"}) = k].value[1]],
     error |-> IF \E i \in 1..Len(ts) : ts[i].state = "rejected" THEN Rejection(ts) ELSE "none"]

\* The records the calls before call c have returned, in call order.
RECURSIVE ReturnedBefore(_)
ReturnedBefore(c) ==
    IF c <= 1 THEN <<>>
    ELSE ReturnedBefore(c - 1)
            \o (IF calls[c - 1].status = "resolved" THEN calls[c - 1].value ELSE <<>>)

\* Settle with a results array that outlives the call: the call returns the
\* records of the calls before it ahead of its own.
SettleAccumulates(ts) ==
    IF \E i \in 1..Len(ts) : ts[i].state = "rejected"
    THEN Catch(Rejection(ts))
    ELSE [status |-> "resolved",
          value |-> ReturnedBefore(Len(calls) + 1) \o [i \in 1..Len(ts) |-> ts[i].value[1]],
          error |-> "none"]

\* How the call settles once Promise.all has: lines 197-206.
Settle(ts) ==
    IF \E i \in 1..Len(ts) : ts[i].state = "rejected"
    THEN Catch(Rejection(ts))
    ELSE [status |-> "resolved",
          value |-> [i \in 1..Len(ts) |-> ts[i].value[1]],
          error |-> "none"]

(***************************************************************************)
(* The calls of a behaviour.  One call on every bitmap of the pool, and    *)
(* every sequence of up to MaxCalls calls on two bitmaps: one without      *)
(* objects, one with a single object.                                      *)
(***************************************************************************)
SourceIds == {"a", "b"}

CallBitmaps ==
    {[width |-> 14, height |-> 14, alpha |-> <<>>],
     [width |-> 15, height |-> 16, alpha |-> [i \in {16} |-> 21]]}

Files ==
    {<<[bitmap |-> Bitmap(b), sourceId |-> "a"]>> : b \in Bitmaps}
    \cup UNION {{f \in [1..n -> [bitmap : CallBitmaps, sourceId : SourceIds]] :
                    f[1].sourceId = "a"} : n \in 2..MaxCalls}

NewCall == [status |-> "new", value |-> <<>>, error |-> "none"]

\* useBackgroundRemoval before its effect has run (lines 6-8), and the worker's
\* module scope before any message (part_003 line 8).
HookInit ==
    /\ workerRef = "null"
    /\ status = "idle"
    /\ progress = 0
    /\ listeners = {}
    /\ promises = <<>>
    /\ inbox = <<>>
    /\ outbox = <<>>
    /\ jobs = <<>>
    /\ instance = "null"
    /\ modelLoads = 0
    /\ processorLoads = 0

\* The locals of handleFiles before its first statement.
NoLocals ==
    [i |-> 0, sourceId |-> "", newSourceImages |-> {}, newProcessedBitmaps |-> {},
     newSegments |-> <<>>]

\* App's state after its first render (App.tsx lines 9-16); at tells whether
\* the component drives the hooks ("ready") or the hooks are called directly
\* ("off").
AppInit(at) ==
    /\ appState = "upload"
    /\ totalFiles = 0
    /\ currentFileIndex = 0
    /\ sourceImages = {}
    /\ processedBitmaps = {}
    /\ allSegments = <<>>
    /\ handle = [pc |-> at, locals |-> NoLocals]

Init ==
    /\ files \in Files
    /\ started = 0
    /\ isSegmenting = FALSE
    /\ now = 0
    /\ urlCount = 0
    /\ blobs = <<>>
    /\ pc = "idle"
    /\ cur = 0
    /\ width = 0
    /\ height = 0
    /\ data = <<>>
    /\ binaryMap = <<>>
    /\ tempMap = <<>>
    /\ dilatedMap = <<>>
    /\ visited = <<>>
    /\ scanIdx = 0
    /\ components = <<>>
    /\ objects = <<>>
    /\ tasks = [c \in 1..Len(files) |-> <<>>]
    /\ calls = [c \in 1..Len(files) |-> NewCall]
    /\ HookInit
    /\ AppInit("off")

\* segmentImage is called: lines 16-28.  The event loop is idle; the call runs
\* synchronously up to its await.
SegmentImageCall ==
    /\ pc = "idle"
    /\ started < Len(files)
    /\ started' = started + 1
    /\ \E ctxOk \in BOOLEAN :
         IF ctxOk
         THEN /\ isSegmenting' = TRUE
              /\ cur' = started + 1
              /\ width' = files[started + 1].bitmap.width
              /\ height' = files[started + 1].bitmap.height
              /\ data' = GetImageData(files[started + 1].bitmap)
              /\ pc' = "binaryMap"
              /\ calls' = [calls EXCEPT ![started + 1].status = "sync"]
         ELSE /\ isSegmenting' = FALSE
              /\ calls' = [calls EXCEPT ![started + 1] = Catch("Failed to get context")]
              /\ UNCHANGED <<cur, width, height, data, pc>>
    /\ UNCHANGED <<files, now, urlCount, blobs, binaryMap, tempMap, dilatedMap, visited,
                   scanIdx, components, objects, tasks>>

\* A call made by a caller other than App.
SegmentImage ==
    /\ handle.pc = "off"
    /\ SegmentImageCall
    /\ UNCHANGED <<workerVars, appVars>>

\* Lines 31-36.
BuildBinaryMap ==
    /\ pc = "binaryMap"
    /\ binaryMap' = BinaryMapOf(data, width, height)
    /\ pc' = "dilateRows"
    /\ UNCHANGED <<files, started, isSegmenting, now, urlCount, blobs, cur, width, height,
                   data, tempMap, dilatedMap, visited, scanIdx, components, objects,
                   tasks, calls>>
    /\ UNCHANGED <<workerVars, appVars>>

\* Lines 41-54.
DilateRows ==
    /\ pc = "dilateRows"
    /\ tempMap' = HorizontalDilation(binaryMap, width, height)
    /\ pc' = "dilateColumns"
    /\ UNCHANGED <<files, started, isSegmenting, now, urlCount, blobs, cur, width, height,
                   data, binaryMap, dilatedMap, visited, scanIdx, components, objects,
                   tasks, calls>>
    /\ UNCHANGED <<workerVars, appVars>>

\* Lines 56-73.
DilateColumns ==
    /\ pc = "dilateColumns"
    /\ dilatedMap' = VerticalDilation(tempMap, width, height)
    /\ visited' = Zeros(width * height)
    /\ scanIdx' = 0
    /\ pc' = "scan"
    /\ UNCHANGED <<files, started, isSegmenting, now, urlCount, blobs, cur, width, height,
                   data, binaryMap, tempMap, components, objects, tasks, calls>>
    /\ UNCHANGED <<workerVars, appVars>>

\* The scan reaches the next pixel that is set and not visited, fills its
\* component and refines it: lines 75-168.
ScanComponent ==
    /\ pc = "scan"
    /\ FirstSeed(scanIdx, visited, dilatedMap, width * height) < width * height
    /\ \E idx \in {FirstSeed(scanIdx, visited, dilatedMap, width * height)} :
       \E s \in {Bfs(idx, visited, dilatedMap, width, height)} :
       \E c \in {[minX |-> s.minX, maxX |-> s.maxX, minY |-> s.minY,
                  maxY |-> s.maxY, componentPixels |-> s.componentPixels,
                  queue |-> s.queue, head |-> s.head]} :
          /\ visited' = s.visited
          /\ components' = Append(components, c)
          /\ objects' = Push(objects, Refine(c, data, width, height))
          /\ scanIdx' = idx + 1
    /\ UNCHANGED <<files, started, isSegmenting, now, urlCount, blobs, pc, cur, width, height,
                   data, binaryMap, tempMap, dilatedMap, tasks, calls>>
    /\ UNCHANGED <<workerVars, appVars>>

\* The scan runs off the last pixel: the loops of lines 75-76 end.
ScanEnd ==
    /\ pc = "scan"
    /\ FirstSeed(scanIdx, visited, dilatedMap, width * height) = width * height
    /\ scanIdx' = width * height
    /\ pc' = "extract"
    /\ UNCHANGED <<files, started, isSegmenting, now, urlCount, blobs, cur, width, height,
                   data, binaryMap, tempMap, dilatedMap, visited, components, objects,
                   tasks, calls>>
    /\ UNCHANGED <<workerVars, appVars>>

\* objects.map runs every callback up to its await, and the call awaits
\* Promise.all: lines 172-185.  The call's locals are dead from here on.
ExtractObjects ==
    /\ pc = "extract"
    /\ \E ctxOk \in [1..Len(objects) -> BOOLEAN] :
         tasks' = [tasks EXCEPT ![cur] = [i \in 1..Len(objects) |-> NewTask(objects[i], ctxOk[i],
                                                             files[cur].bitmap)]]
    /\ calls' = [calls EXCEPT ![cur].status = "await"]
    /\ pc' = "idle"
    /\ cur' = 0
    /\ width' = 0
    /\ height' = 0
    /\ data' = <<>>
    /\ binaryMap' = <<>>
    /\ tempMap' = <<>>
    /\ dilatedMap' = <<>>
    /\ visited' = <<>>
    /\ scanIdx' = 0
    /\ components' = <<>>
    /\ objects' = <<>>
    /\ UNCHANGED <<files, started, isSegmenting, now, urlCount, blobs>>
    /\ UNCHANGED <<workerVars, appVars>>

\* convertToBlob fulfils and the callback returns its record: lines 185-196.
BlobFulfilled(c, i) ==
    /\ pc = "idle"
    /\ tasks[c][i].state = "pending"
    /\ \E t \in now..Min(now + 1, MaxNow) :
         /\ now' = t
         /\ tasks' = [tasks EXCEPT ![c][i].state = "fulfilled",
                                   ![c][i].value = <<SegmentedObject(tasks[c][i].obj, i - 1,
                                                        files[c].sourceId, urlCount + 1, t)>>]
    /\ urlCount' = urlCount + 1
    /\ blobs' = Append(blobs, ConvertToBlob(tasks[c][i].canvas,
                                            BoxWidth(tasks[c][i].obj),
                                            BoxHeight(tasks[c][i].obj)))
    /\ UNCHANGED <<files, started, isSegmenting, pc, cur, calls>>
    /\ UNCHANGED locals
    /\ UNCHANGED <<workerVars, appVars>>

\* convertToBlob rejects: the callback's promise rejects at line 185.
BlobRejected(c, i) ==
    /\ pc = "idle"
    /\ tasks[c][i].state = "pending"
    /\ tasks' = [tasks EXCEPT ![c][i].state = "rejected", ![c][i].error = "encode"]
    /\ UNCHANGED <<files, started, isSegmenting, now, urlCount, blobs, pc, cur, calls>>
    /\ UNCHANGED locals
    /\ UNCHANGED <<workerVars, appVars>>

\* Promise.all fulfils and the call returns results: lines 197-200.
AllFulfilled(c) ==
    /\ pc = "idle"
    /\ calls[c].status = "await"
    /\ \A i \in 1..Len(tasks[c]) : tasks[c][i].state = "fulfilled"
    /\ isSegmenting' = FALSE
    /\ calls' = [calls EXCEPT ![c] = Settle(tasks[c])]
    /\ UNCHANGED <<files, started, now, urlCount, blobs, pc, cur, tasks>>
    /\ UNCHANGED locals
    /\ UNCHANGED <<workerVars, appVars>>

\* Promise.all rejects with its first rejection and the call's catch runs:
\* lines 202-206.
AnyRejected(c) ==
    /\ pc = "idle"
    /\ calls[c].status = "await"
    /\ \E i \in 1..Len(tasks[c]) : tasks[c][i].state = "rejected"
    /\ isSegmenting' = FALSE
    /\ calls' = [calls EXCEPT ![c] = Settle(tasks[c])]
    /\ UNCHANGED <<files, started, now, urlCount, blobs, pc, cur, tasks>>
    /\ UNCHANGED locals
    /\ UNCHANGED <<workerVars, appVars>>

Next ==
    \/ SegmentImage
    \/ BuildBinaryMap
    \/ DilateRows
    \/ DilateColumns
    \/ ScanComponent
    \/ ScanEnd
    \/ ExtractObjects
    \/ \E c \in 1..Len(files) : \E i \in 1..Len(tasks[c]) : BlobFulfilled(c, i)
    \/ \E c \in 1..Len(files) : \E i \in 1..Len(tasks[c]) : BlobRejected(c, i)
    \/ \E c \in 1..Len(files) : AllFulfilled(c)
    \/ \E c \in 1..Len(files) : AnyRejected(c)

Spec == Init /\ [][Next]_vars

(***************************************************************************)
(* One call on a 100 x 100 transparent canvas with two opaque 5 x 5 blocks. *)
(* A scene names the top-left pixel of either block.                       *)
(***************************************************************************)
CanvasSide == 100

BlockSide == 5

Scenes ==
    {[a |-> <<40, 40>>, b |-> <<60, 40>>],
     [a |-> <<0, 0>>, b |-> <<0, 20>>],
     [a |-> <<40, 40>>, b |-> <<52, 56>>],
     [a |-> <<10, 50>>, b |-> <<45, 50>>],
     [a |-> <<10, 10>>, b |-> <<45, 44>>],
     [a |-> <<10, 10>>, b |-> <<45, 45>>],
     [a |-> <<0, 0>>, b |-> <<60, 0>>],
     [a |-> <<35, 95>>, b |-> <<95, 95>>],
     [a |-> <<20, 47>>, b |-> <<80, 47>>],
     [a |-> <<47, 0>>, b |-> <<47, 60>>],
     [a |-> <<10, 10>>, b |-> <<46, 58>>]}

\* The pixels of the block whose top-left pixel is at.
Block(at) ==
    {(at[2] + dy) * CanvasSide + (at[1] + dx) :
        dx \in 0..(BlockSide - 1), dy \in 0..(BlockSide - 1)}

SceneBitmap(s) ==
    [width |-> CanvasSide, height |-> CanvasSide,
     alpha |-> [i \in Block(s.a) \cup Block(s.b) |-> 255]]

InitScenes ==
    /\ files \in {<<[bitmap |-> SceneBitmap(s), sourceId |-> "a"]>> : s \in Scenes}
    /\ started = 0
    /\ isSegmenting = FALSE
    /\ now = 0
    /\ urlCount = 0
    /\ blobs = <<>>
    /\ pc = "idle"
    /\ cur = 0
    /\ width = 0
    /\ height = 0
    /\ data = <<>>
    /\ binaryMap = <<>>
    /\ tempMap = <<>>
    /\ dilatedMap = <<>>
    /\ visited = <<>>
    /\ scanIdx = 0
    /\ components = <<>>
    /\ objects = <<>>
    /\ tasks = <<<<>>>>
    /\ calls = <<NewCall>>
    /\ HookInit
    /\ AppInit("off")

SpecScenes == InitScenes /\ [][Next]_vars

(***************************************************************************)
(* One call on every bitmap of the pool and on three more: two of 16 x 16, *)
(* the smallest size at which every dilated component holds 256 pixels,    *)
(* and one of 46 x 33 on which the dilated box of the component of (0, 1)  *)
(* and (30, 32) holds the pixel (45, 0) of another component.  The         *)
(* synchronous part of a call runs to its end once it has started.         *)
(***************************************************************************)
ScanExtras ==
    {[width |-> 16, height |-> 16, alpha |-> [i \in {0} |-> 21]],
     [width |-> 16, height |-> 16, alpha |-> [i \in {136} |-> 21]],
     [width |-> 46, height |-> 33, alpha |-> [i \in {45, 46, 1502} |-> 21]]}

ScanFiles ==
    {<<[bitmap |-> Bitmap(b), sourceId |-> "a"]>> : b \in Bitmaps}
    \cup {<<[bitmap |-> b, sourceId |-> "a"]>> : b \in ScanExtras}

InitScan ==
    /\ files \in ScanFiles
    /\ started = 0
    /\ isSegmenting = FALSE
    /\ now = 0
    /\ urlCount = 0
    /\ blobs = <<>>
    /\ pc = "idle"
    /\ cur = 0
    /\ width = 0
    /\ height = 0
    /\ data = <<>>
    /\ binaryMap = <<>>
    /\ tempMap = <<>>
    /\ dilatedMap = <<>>
    /\ visited = <<>>
    /\ scanIdx = 0
    /\ components = <<>>
    /\ objects = <<>>
    /\ tasks = <<<<>>>>
    /\ calls = <<NewCall>>
    /\ HookInit
    /\ AppInit("off")

\* The steps of a call between two awaits: JavaScript runs them to completion.
Synchronous ==
    \/ BuildBinaryMap
    \/ DilateRows
    \/ DilateColumns
    \/ ScanComponent
    \/ ScanEnd
    \/ ExtractObjects

SpecScan == InitScan /\ [][Next]_vars

(***************************************************************************)
(* One call on a bitmap with opaque corners, under the scheduling of       *)
(* JavaScript: a call that has started runs its synchronous steps without  *)
(* being held up, so the steps between two awaits are taken.               *)
(***************************************************************************)
LabelSizes == {<<14, 14>>, <<33, 17>>}

LabelBitmaps ==
    UNION {{[width |-> sz[1], height |-> sz[2], alpha |-> [i \in P |-> 21]] :
            P \in SUBSET {0, sz[1] - 1, sz[1] * sz[2] - 1}} : sz \in LabelSizes}

InitLabel ==
    /\ files \in {<<[bitmap |-> b, sourceId |-> "a"]>> : b \in LabelBitmaps}
    /\ started = 0
    /\ isSegmenting = FALSE
    /\ now = 0
    /\ urlCount = 0
    /\ blobs = <<>>
    /\ pc = "idle"
    /\ cur = 0
    /\ width = 0
    /\ height = 0
    /\ data = <<>>
    /\ binaryMap = <<>>
    /\ tempMap = <<>>
    /\ dilatedMap = <<>>
    /\ visited = <<>>
    /\ scanIdx = 0
    /\ components = <<>>
    /\ objects = <<>>
    /\ tasks = <<<<>>>>
    /\ calls = <<NewCall>>
    /\ HookInit
    /\ AppInit("off")

SpecLabel == InitLabel /\ [][Next]_vars /\ WF_vars(Synchronous)

(***************************************************************************)
(* The filter and the refinement of lines 119-167 on components of every   *)
(* box and pixel count around the two thresholds, whether or not a scan    *)
(* can find them.  The bitmap has content at the origin, which every one   *)
(* of the boxes holds.                                                     *)
(***************************************************************************)
FilterBitmap == [width |-> 40, height |-> 40, alpha |-> [i \in {0} |-> 21]]

FilterSides == {29, 30, 31}

FilterCounts == {1, 2, 199, 200, 201, 202, 841}

\* A component of the box bw x bh at the origin that holds count pixels.
FilterComponent(bw, bh, count) ==
    [minX |-> 0, maxX |-> bw - 1, minY |-> 0, maxY |-> bh - 1,
     componentPixels |-> [k \in 1..count |->
                             (((k - 1) \div bw) * FilterBitmap.width) + ((k - 1) % bw)]]

InitFilter ==
    /\ files = <<[bitmap |-> FilterBitmap, sourceId |-> "a"]>>
    /\ started = 1
    /\ isSegmenting = TRUE
    /\ now = 0
    /\ urlCount = 0
    /\ blobs = <<>>
    /\ pc = "filter"
    /\ cur = 1
    /\ width = FilterBitmap.width
    /\ height = FilterBitmap.height
    /\ data = GetImageData(FilterBitmap)
    /\ binaryMap = <<>>
    /\ tempMap = <<>>
    /\ dilatedMap = <<>>
    /\ visited = <<>>
    /\ scanIdx = 0
    /\ \E bw \in FilterSides, bh \in FilterSides, count \in FilterCounts :
          components = <<FilterComponent(bw, bh, count)>>
    /\ objects = <<>>
    /\ tasks = <<<<>>>>
    /\ calls = <<[NewCall EXCEPT !.status = "sync"]>>
    /\ HookInit
    /\ AppInit("off")

\* Lines 119-167 run on the component.
FilterStep ==
    /\ pc = "filter"
    /\ objects' = Push(objects, Refine(components[1], data, width, height))
    /\ pc' = "filtered"
    /\ UNCHANGED <<files, started, isSegmenting, now, urlCount, blobs, cur, width, height,
                   data, binaryMap, tempMap, dilatedMap, visited, scanIdx, components,
                   tasks, calls>>
    /\ UNCHANGED <<workerVars, appVars>>

NextFilter == FilterStep

SpecFilter == InitFilter /\ [][NextFilter]_vars

(***************************************************************************)
(* 5. Background removal: the hook useBackgroundRemoval and its worker.    *)
(***************************************************************************)
segmenterVars == <<files, started, isSegmenting, now, urlCount, blobs, pc, cur, locals,
                   tasks, calls>>

\* The images a caller has; every one is handed to processImage at most once.
ImageUrls == {"blob:1", "blob:2"}

\* The progress a download reports; 0 is the value that line 23 skips.
ProgressValues == {0, 50}

\* What the worker's handler can throw: the loads of lines 16 and 20, the
\* awaits of lines 44-60 and the throw of line 65.
WorkerErrors == {"fetch failed", "Canvas context null"}

\* The bitmap the worker builds from the image at imageUrl: lines 44-86.
RemoveBackground(imageUrl) == [image |-> imageUrl, background |-> "removed"]

\* A message of the worker.  job names the handler that posted it; the code
\* sends no such field, and no reader of the model looks at it but the
\* properties.
StatusMessage(st, pr, j) ==
    [type |-> "status", status |-> st, progress |-> pr, bitmap |-> <<>>, error |-> "", job |-> j]

CompleteMessage(bitmap, j) ==
    [type |-> "complete", status |-> "", progress |-> 0, bitmap |-> <<bitmap>>, error |-> "",
     job |-> j]

ErrorMessage(e, j) ==
    [type |-> "error", status |-> "", progress |-> 0, bitmap |-> <<>>, error |-> e, job |-> j]

\* The effect of lines 10-36 of the hook: the worker exists.
Mount ==
    /\ workerRef = "null"
    /\ workerRef' = "worker"
    /\ UNCHANGED <<status, progress, listeners, promises, inbox, outbox, jobs, instance,
                   modelLoads, processorLoads>>
    /\ UNCHANGED <<segmenterVars, appVars>>

\* processImage(imageUrl): lines 43-73 of the hook.  The promise is rejected
\* at once when there is no worker; otherwise onMessage is registered and the
\* request is posted.
ProcessImageCall(imageUrl) ==
    LET p == Len(promises) + 1
    IN IF workerRef = "null"
       THEN /\ promises' = Append(promises, [imageUrl |-> imageUrl, state |-> "rejected",
                                             bitmap |-> <<>>,
                                             error |-> "Worker not initialized",
                                             by |-> 0, settled |-> 1])
            /\ UNCHANGED <<listeners, inbox>>
       ELSE /\ promises' = Append(promises, [imageUrl |-> imageUrl, state |-> "pending",
                                             bitmap |-> <<>>, error |-> "",
                                             by |-> 0, settled |-> 0])
            /\ listeners' = listeners \cup {p}
            /\ inbox' = Append(inbox, [type |-> "process", imageUrl |-> imageUrl])

\* A call made by a caller other than App.
ProcessImage(imageUrl) ==
    /\ handle.pc = "off"
    /\ \A p \in 1..Len(promises) : promises[p].imageUrl # imageUrl
    /\ ProcessImageCall(imageUrl)
    /\ UNCHANGED <<workerRef, status, progress, outbox, jobs, instance, modelLoads,
                   processorLoads>>
    /\ UNCHANGED <<segmenterVars, appVars>>

\* BackgroundRemover.getInstance up to its first await, called by handler j:
\* lines 10-16 of the worker.  With no instance the handler starts to load the
\* model; with one it goes on to line 41.
GetInstance(j, inst) ==
    [stage |-> IF inst = "null" THEN "model" ELSE "process",
     loads |-> IF inst = "null" THEN 1 ELSE 0]

\* The worker's handler takes a 'process' message and runs to its first await
\* on something outside the worker: lines 27-39, and 41-44 when the instance
\* exists.
WorkerReceive ==
    /\ inbox # <<>>
    /\ LET j == Len(jobs) + 1
           g == GetInstance(j, instance)
       IN /\ jobs' = Append(jobs, [imageUrl |-> Head(inbox).imageUrl, stage |-> g.stage,
                                    reported |-> FALSE])
          /\ modelLoads' = modelLoads + g.loads
          /\ outbox' = IF g.stage = "process"
                       THEN outbox \o <<StatusMessage("loading", 0, j),
                                        StatusMessage("processing", 0, j)>>
                       ELSE Append(outbox, StatusMessage("loading", 0, j))
    /\ inbox' = Tail(inbox)
    /\ UNCHANGED <<workerRef, status, progress, listeners, promises, instance, processorLoads>>
    /\ UNCHANGED <<segmenterVars, appVars>>

\* The model's download reports progress: lines 37-39.
ProgressCallback(j) ==
    /\ jobs[j].stage = "model"
    /\ ~jobs[j].reported
    /\ \E pr \in ProgressValues :
         outbox' = Append(outbox, StatusMessage("downloading", pr, j))
    /\ jobs' = [jobs EXCEPT ![j].reported = TRUE]
    /\ UNCHANGED <<workerRef, status, progress, listeners, promises, inbox, instance,
                   modelLoads, processorLoads>>
    /\ UNCHANGED <<segmenterVars, appVars>>

\* AutoModel.from_pretrained settles: line 16, and line 20 up to its await,
\* or the catch of lines 90-93.
ModelLoaded(j) ==
    /\ jobs[j].stage = "model"
    /\ \/ /\ jobs' = [jobs EXCEPT ![j].stage = "processor"]
          /\ processorLoads' = processorLoads + 1
          /\ UNCHANGED outbox
       \/ /\ jobs' = [jobs EXCEPT ![j].stage = "done"]
          /\ outbox' = Append(outbox, ErrorMessage("fetch failed", j))
          /\ UNCHANGED processorLoads
    /\ UNCHANGED <<workerRef, status, progress, listeners, promises, inbox, instance,
                   modelLoads>>
    /\ UNCHANGED <<segmenterVars, appVars>>

\* AutoProcessor.from_pretrained settles: the instance is stored (line 15) and
\* the handler goes on to lines 41-44, or the catch of lines 90-93 runs.
ProcessorLoaded(j) ==
    /\ jobs[j].stage = "processor"
    /\ \/ /\ jobs' = [jobs EXCEPT ![j].stage = "process"]
          /\ instance' = "loaded"
          /\ outbox' = Append(outbox, StatusMessage("processing", 0, j))
       \/ /\ jobs' = [jobs EXCEPT ![j].stage = "done"]
          /\ outbox' = Append(outbox, ErrorMessage("fetch failed", j))
          /\ UNCHANGED instance
    /\ UNCHANGED <<workerRef, status, progress, listeners, promises, inbox, modelLoads,
                   processorLoads>>
    /\ UNCHANGED <<segmenterVars, appVars>>

\* The image is fetched, masked and posted, or one of lines 44-65 throws:
\* lines 44-93.
Processed(j) ==
    /\ jobs[j].stage = "process"
    /\ jobs' = [jobs EXCEPT ![j].stage = "done"]
    /\ \/ outbox' = Append(outbox, CompleteMessage(RemoveBackground(jobs[j].imageUrl), j))
       \/ \E e \in WorkerErrors : outbox' = Append(outbox, ErrorMessage(e, j))
    /\ UNCHANGED <<workerRef, status, progress, listeners, promises, inbox, instance,
                   modelLoads, processorLoads>>
    /\ UNCHANGED <<segmenterVars, appVars>>

\* onMessage of a processImage call whose listener is registered, given
\* message m: lines 60-68 of the hook.
OnMessage(promise, m) ==
    IF m.type = "complete"
    THEN [promise EXCEPT !.state = "fulfilled", !.bitmap = m.bitmap, !.by = m.job,
                         !.settled = @ + 1]
    ELSE IF m.type = "error"
    THEN [promise EXCEPT !.state = "rejected", !.error = m.error, !.by = m.job,
                         !.settled = @ + 1]
    ELSE promise

\* worker.onmessage: lines 16-34 of the hook.
StatusAfter(m) ==
    IF m.type = "status"
    THEN IF m.status \in {"downloading", "processing"} THEN m.status ELSE status
    ELSE IF m.type = "complete" THEN "complete"
    ELSE IF m.type = "error" THEN "error"
    ELSE status

ProgressAfter(m) ==
    IF m.type = "status" /\ m.status = "downloading"
    THEN IF m.progress # 0 THEN m.progress ELSE progress
    ELSE IF m.type = "status" /\ m.status = "processing" THEN 100
    ELSE progress

\* A message of the worker is dispatched: worker.onmessage runs, and then the
\* onMessage of every processImage call that has not removed its listener.
Deliver ==
    /\ outbox # <<>>
    /\ LET m == Head(outbox)
       IN /\ status' = StatusAfter(m)
          /\ progress' = ProgressAfter(m)
          /\ promises' = [p \in DOMAIN promises |->
                            IF p \in listeners THEN OnMessage(promises[p], m)
                            ELSE promises[p]]
          /\ listeners' = IF m.type \in {"complete", "error"} THEN {} ELSE listeners
    /\ outbox' = Tail(outbox)
    /\ UNCHANGED <<workerRef, inbox, jobs, instance, modelLoads, processorLoads>>
    /\ UNCHANGED <<segmenterVars, appVars>>

WorkerStep ==
    \/ WorkerReceive
    \/ \E j \in 1..Len(jobs) : ProgressCallback(j)
    \/ \E j \in 1..Len(jobs) : ModelLoaded(j)
    \/ \E j \in 1..Len(jobs) : ProcessorLoaded(j)
    \/ \E j \in 1..Len(jobs) : Processed(j)

InitWorker ==
    /\ files = <<>>
    /\ started = 0
    /\ isSegmenting = FALSE
    /\ now = 0
    /\ urlCount = 0
    /\ blobs = <<>>
    /\ pc = "idle"
    /\ cur = 0
    /\ width = 0
    /\ height = 0
    /\ data = <<>>
    /\ binaryMap = <<>>
    /\ tempMap = <<>>
    /\ dilatedMap = <<>>
    /\ visited = <<>>
    /\ scanIdx = 0
    /\ components = <<>>
    /\ objects = <<>>
    /\ tasks = <<>>
    /\ calls = <<>>
    /\ HookInit
    /\ AppInit("off")

NextWorker ==
    \/ Mount
    \/ \E imageUrl \in ImageUrls : ProcessImage(imageUrl)
    \/ WorkerStep
    \/ Deliver

SpecWorker == InitWorker /\ [][NextWorker]_vars

(***************************************************************************)
(* 6. App: handleFiles, App.tsx lines 30-79.  files is the batch that is   *)
(* dropped: files[i].bitmap holds the pixels of the bitmap that background *)
(* removal yields for the i-th file, files[i].sourceId the UUID drawn for  *)
(* it.                                                                     *)
(***************************************************************************)
MaxFiles == 2       \* files of the batch

\* crypto.randomUUID(), i-th draw: line 45.
RandomUUID(i) == <<"uuid", i>>

\* URL.createObjectURL(files[i]): line 46.
FileUrl(i) == <<"blob:file", i>>

AppFiles ==
    UNION {{[i \in 1..n |-> [bitmap |-> f[i], sourceId |-> RandomUUID(i)]] :
            f \in [1..n -> CallBitmaps]} : n \in 0..MaxFiles}

\* The catch that goes to the editor whatever it has.
AfterCatchEditor(newSegments) == "editor"

\* appState after the catch of lines 65-78.
AfterCatch(newSegments) == IF Len(newSegments) > 0 THEN "editor" ELSE "upload"

\* One round of the loop up to its first await, for file i: lines 43-51.
LoopHead(i, l) ==
    /\ currentFileIndex' = i
    /\ handle' = [pc |-> "processImage",
                  locals |-> [l EXCEPT !.i = i,
                                       !.sourceId = files[i].sourceId,
                                       !.newSourceImages =
                                           @ \cup {<<files[i].sourceId, FileUrl(i)>>}]]
    /\ ProcessImageCall(FileUrl(i))

\* handleFiles(files) up to its first await: lines 30-51.  The upload area is
\* rendered only in appState 'upload'.
HandleFiles ==
    /\ handle.pc = "ready"
    /\ appState = "upload"
    /\ IF Len(files) = 0
       THEN /\ handle' = [handle EXCEPT !.pc = "done"]
            /\ UNCHANGED <<appState, totalFiles, currentFileIndex, listeners, promises, inbox>>
       ELSE /\ totalFiles' = Len(files)
            /\ appState' = "processing"
            /\ LoopHead(1, [handle.locals EXCEPT !.newSourceImages = sourceImages,
                                                  !.newProcessedBitmaps = processedBitmaps,
                                                  !.newSegments = allSegments])
    /\ UNCHANGED <<sourceImages, processedBitmaps, allSegments>>
    /\ UNCHANGED <<workerRef, status, progress, outbox, jobs, instance, modelLoads,
                   processorLoads>>
    /\ UNCHANGED segmenterVars

\* processImage has fulfilled; the handler stores the bitmap and calls
\* segmentImage, which runs to its first await: lines 51-55.
BitmapReturned ==
    /\ handle.pc = "processImage"
    /\ promises[Len(promises)].state = "fulfilled"
    /\ handle' = [handle EXCEPT !.pc = "segmentImage",
                                !.locals.newProcessedBitmaps =
                                    @ \cup {<<handle.locals.sourceId,
                                              promises[Len(promises)].bitmap[1]>>}]
    /\ SegmentImageCall
    /\ UNCHANGED <<appState, totalFiles, currentFileIndex, sourceImages, processedBitmaps,
                   allSegments>>
    /\ UNCHANGED workerVars

\* processImage has rejected: the catch of lines 65-78.
BitmapFailed ==
    /\ handle.pc = "processImage"
    /\ promises[Len(promises)].state = "rejected"
    /\ appState' = AfterCatch(handle.locals.newSegments)
    /\ IF Len(handle.locals.newSegments) > 0
       THEN /\ sourceImages' = handle.locals.newSourceImages
            /\ processedBitmaps' = handle.locals.newProcessedBitmaps
            /\ allSegments' = handle.locals.newSegments
       ELSE UNCHANGED <<sourceImages, processedBitmaps, allSegments>>
    /\ handle' = [handle EXCEPT !.pc = "done"]
    /\ UNCHANGED <<totalFiles, currentFileIndex>>
    /\ UNCHANGED <<workerVars, segmenterVars>>

\* segmentImage has settled; the handler adds its records and goes to the
\* next file, or leaves the loop: lines 55-63.
SegmentsReturned ==
    /\ handle.pc = "segmentImage"
    /\ pc = "idle"
    /\ calls[handle.locals.i].status = "resolved"
    /\ LET l == [handle.locals EXCEPT !.newSegments = @ \o calls[handle.locals.i].value]
       IN IF handle.locals.i < Len(files)
          THEN /\ LoopHead(handle.locals.i + 1, l)
               /\ UNCHANGED <<appState, sourceImages, processedBitmaps, allSegments>>
          ELSE /\ sourceImages' = l.newSourceImages
               /\ processedBitmaps' = l.newProcessedBitmaps
               /\ allSegments' = l.newSegments
               /\ appState' = "editor"
               /\ handle' = [pc |-> "done", locals |-> l]
               /\ UNCHANGED <<currentFileIndex, listeners, promises, inbox>>
    /\ UNCHANGED totalFiles
    /\ UNCHANGED <<workerRef, status, progress, outbox, jobs, instance, modelLoads,
                   processorLoads>>
    /\ UNCHANGED segmenterVars

\* App after its first render and the hooks' effects: the worker exists.
InitApp ==
    /\ files \in AppFiles
    /\ started = 0
    /\ isSegmenting = FALSE
    /\ now = 0
    /\ urlCount = 0
    /\ blobs = <<>>
    /\ pc = "idle"
    /\ cur = 0
    /\ width = 0
    /\ height = 0
    /\ data = <<>>
    /\ binaryMap = <<>>
    /\ tempMap = <<>>
    /\ dilatedMap = <<>>
    /\ visited = <<>>
    /\ scanIdx = 0
    /\ components = <<>>
    /\ objects = <<>>
    /\ tasks = [c \in 1..Len(files) |-> <<>>]
    /\ calls = [c \in 1..Len(files) |-> NewCall]
    /\ workerRef = "worker"
    /\ status = "idle"
    /\ progress = 0
    /\ listeners = {}
    /\ promises = <<>>
    /\ inbox = <<>>
    /\ outbox = <<>>
    /\ jobs = <<>>
    /\ instance = "null"
    /\ modelLoads = 0
    /\ processorLoads = 0
    /\ AppInit("ready")

\* The steps of segmentImage after its call.
SegmenterStep ==
    \/ Synchronous
    \/ \E c \in 1..Len(files) : \E i \in 1..Len(tasks[c]) : BlobFulfilled(c, i)
    \/ \E c \in 1..Len(files) : \E i \in 1..Len(tasks[c]) : BlobRejected(c, i)
    \/ \E c \in 1..Len(files) : AllFulfilled(c)
    \/ \E c \in 1..Len(files) : AnyRejected(c)

NextApp ==
    \/ HandleFiles
    \/ BitmapReturned
    \/ BitmapFailed
    \/ SegmentsReturned
    \/ WorkerStep
    \/ Deliver
    \/ SegmenterStep

SpecApp == InitApp /\ [][NextApp]_vars

(***************************************************************************)
(* Properties.                                                             *)
(***************************************************************************)
Surface(e) == e \in {"Failed to get context", "Ctx error"}

Settled(c) == calls[c].status \in {"resolved", "rejected"}

\* The box of a returned record.
BoxOf(r) == [minX |-> r.x, minY |-> r.y, maxX |-> r.x + r.width - 1, maxY |-> r.y + r.height - 1]

\* The 4-neighbours of pixel p in a w x h grid.
Neighbours4(p, w, h) ==
    {q \in {p - 1, p + 1, p - w, p + w} :
        /\ q >= 0
        /\ q < w * h
        /\ (q \div w = p \div w) \/ (q % w = p % w)}

\* The pixels of S that a 4-connected path inside S joins to the frontier.
RECURSIVE Flood(_, _, _, _, _)
Flood(seen, frontier, S, w, h) ==
    IF frontier = {} THEN seen
    ELSE LET next == ((UNION {Neighbours4(p, w, h) : p \in frontier}) \cap S) \ seen
         IN Flood(seen \cup next, next, S, w, h)

\* C1: every box the scan pushes has an even width and an even height.
C1_EvenDimensions ==
    \A i \in 1..Len(objects) :
        BoxWidth(objects[i]) % 2 = 0 /\ BoxHeight(objects[i]) % 2 = 0

\* C2: when a callback of objects.map fails, the call still returns the record
\* of every callback that succeeds.
C2_SiblingsReturned ==
    \A c \in 1..Len(files) :
        calls[c].status = "resolved" =>
            \A i \in 1..Len(tasks[c]) :
                tasks[c][i].state = "fulfilled" =>
                    \E k \in 1..Len(calls[c].value) : calls[c].value[k] = tasks[c][i].value[1]

\* C3: a call that has returned has returned nothing, or one record per box
\* the scan pushed, in the order of the boxes; never a part of them.
C3_AllOrNothing ==
    \A c \in 1..Len(files) :
        calls[c].status = "resolved" =>
            \/ calls[c].value = <<>>
            \/ /\ Len(calls[c].value) = Len(tasks[c])
               /\ \A i \in 1..Len(tasks[c]) : BoxOf(calls[c].value[i]) = tasks[c][i].obj

C3_Witness ==
    \E c \in 1..Len(files) :
        /\ calls[c].status = "resolved"
        /\ calls[c].value = <<>>
        /\ \E i \in 1..Len(tasks[c]) : tasks[c][i].state = "fulfilled"
        /\ \E i \in 1..Len(tasks[c]) : tasks[c][i].state = "rejected"

\* C4: no call's promise rejects; a call that could not get a drawing surface,
\* for the bitmap or for one of its objects, resolves with no object; and a
\* call made after such a call returns the boxes of its own bitmap.
C4_SurfaceFailure ==
    \A c \in 1..Len(files) :
        /\ calls[c].status # "rejected"
        /\ (Settled(c) /\ \E i \in 1..Len(tasks[c]) : Surface(tasks[c][i].error)) =>
              calls[c].status = "resolved" /\ calls[c].value = <<>>
        /\ Surface(calls[c].error) =>
              calls[c].status = "resolved" /\ calls[c].value = <<>>
        /\ (/\ Settled(c) /\ calls[c].error = "none"
            /\ \E b \in 1..(c - 1) : Surface(calls[b].error)) =>
              /\ calls[c].status = "resolved"
              /\ LET regions == SegmentRegions(files[c].bitmap)
                 IN /\ Len(calls[c].value) = Len(regions)
                    /\ \A i \in 1..Len(regions) : BoxOf(calls[c].value[i]) = regions[i]

C4_Witness ==
    \E b \in 1..Len(files) : \E c \in 1..Len(files) :
        /\ b < c
        /\ calls[b].error = "Ctx error"
        /\ calls[c].status = "resolved"
        /\ calls[c].error = "none"
        /\ Len(calls[c].value) = 1

\* C5: every box the scan pushes lies inside the bitmap.
C5_InsideBitmap ==
    \A i \in 1..Len(objects) :
        /\ 0 <= objects[i].minX
        /\ objects[i].minX <= objects[i].maxX
        /\ objects[i].maxX <= width - 1
        /\ 0 <= objects[i].minY
        /\ objects[i].minY <= objects[i].maxY
        /\ objects[i].maxY <= height - 1

\* A component whose padded box the parity step has changed, at the right edge
\* of the bitmap.
C5_Witness ==
    /\ pc = "extract"
    /\ \E j \in 1..Len(components) :
          LET padded == PaddedBox(TightBox(components[j], data, width, height), width, height)
          IN /\ Refine(components[j], data, width, height) # <<>>
             /\ Refine(components[j], data, width, height)[1] # padded
             /\ padded.maxX = width - 1
             /\ Refine(components[j], data, width, height)[1] \in Range(objects)

Dilated == pc \in {"scan", "extract"}

\* C6: the dilated mask has width * height entries and is set wherever the raw
\* mask is.
C6_DilatedSuperset ==
    Dilated =>
        /\ DOMAIN dilatedMap = 0..(width * height - 1)
        /\ \A i \in 0..(width * height - 1) : binaryMap[i] = 1 => dilatedMap[i] = 1

C6_Witness ==
    /\ Dilated
    /\ \E i \in 0..(width * height - 1) : binaryMap[i] = 1
    /\ \E i \in 0..(width * height - 1) : binaryMap[i] = 0 /\ dilatedMap[i] = 1
    /\ \E i \in 0..(width * height - 1) : dilatedMap[i] = 0

Abs(n) == IF n < 0 THEN -n ELSE n

\* C7: a pixel is set in the dilated mask iff a pixel set in the raw mask lies
\* at Chebyshev distance at most 15 from it.
C7_BoxDilation ==
    Dilated =>
        LET raw == {j \in 0..(width * height - 1) : binaryMap[j] = 1}
        IN \A i \in 0..(width * height - 1) :
              dilatedMap[i] = 1 <=>
                  \E j \in raw : /\ Abs((i % width) - (j % width)) <= 15
                                 /\ Abs((i \div width) - (j \div width)) <= 15

\* A raw pixel on the border, one in the interior at less than 15 from the left
\* edge, and a pixel the dilation leaves unset.
C7_Witness ==
    /\ Dilated
    /\ binaryMap[width * height - 1] = 1
    /\ binaryMap[width + 1] = 1
    /\ \E i \in 0..(width * height - 1) : dilatedMap[i] = 0

Thresholded == pc \in {"dilateRows", "dilateColumns", "scan", "extract"}

\* C8: the raw mask is 1 exactly at the pixels whose alpha is 21 or more.
C8_Threshold ==
    Thresholded =>
        /\ DOMAIN binaryMap = 0..(width * height - 1)
        /\ \A i \in 0..(width * height - 1) :
              /\ binaryMap[i] \in {0, 1}
              \* a pixel the bitmap does not paint has alpha 0
              /\ binaryMap[i] = 1 <=> (/\ i \in DOMAIN files[cur].bitmap.alpha
                                       /\ files[cur].bitmap.alpha[i] >= 21)

C8_Witness ==
    /\ Thresholded
    /\ \E i \in 0..(width * height - 1) : data[i] = 20 /\ binaryMap[i] = 0
    /\ \E i \in 0..(width * height - 1) : data[i] = 21 /\ binaryMap[i] = 1

\* C9: the box of every component is the bounding rectangle of its pixels and
\* lies in the bitmap, and no pixel is in two components.
C9_ComponentBoxes ==
    \A j \in 1..Len(components) :
        LET c == components[j]
            P == Range(c.componentPixels)
        IN /\ 0 <= c.minX /\ c.maxX < width
           /\ 0 <= c.minY /\ c.maxY < height
           /\ \A p \in P : /\ c.minX <= p % width /\ p % width <= c.maxX
                           /\ c.minY <= p \div width /\ p \div width <= c.maxY
           /\ \E p \in P : p % width = c.minX
           /\ \E p \in P : p % width = c.maxX
           /\ \E p \in P : p \div width = c.minY
           /\ \E p \in P : p \div width = c.maxY
           /\ \A k \in 1..(j - 1) : Range(components[k].componentPixels) \cap P = {}

\* Two components, the second one clear of every edge of the first one's row
\* and column range.
C9_Witness ==
    /\ Len(components) = 2
    /\ components[1].maxY < components[2].minY
    /\ components[1].maxX < components[2].minX
    /\ components[2].maxY = height - 1

\* C10: when the scan is over, the components are the maximal 4-connected sets
\* of the dilated mask: every set pixel is in exactly one component, set pixels
\* that share an edge are in the same component, and every component is
\* 4-connected.
C10_MaximalFourConnected ==
    pc = "extract" =>
        LET n == width * height
            P == [j \in 1..Len(components) |-> Range(components[j].componentPixels)]
            Label(p) == {j \in 1..Len(components) : p \in P[j]}
        IN /\ \A p \in 0..(n - 1) :
                 /\ Cardinality(Label(p)) = dilatedMap[p]
                 /\ (dilatedMap[p] = 1 /\ p % width < width - 1 /\ dilatedMap[p + 1] = 1) =>
                        Label(p) = Label(p + 1)
                 /\ (dilatedMap[p] = 1 /\ p + width < n /\ dilatedMap[p + width] = 1) =>
                        Label(p) = Label(p + width)
           /\ \A j \in 1..Len(components) :
                 LET seed == components[j].componentPixels[1]
                 IN Flood({seed}, {seed}, P[j], width, height) = P[j]

\* Two components that touch at a corner only.
C10_Witness ==
    /\ pc = "extract"
    /\ Len(components) = 2
    /\ \E p \in Range(components[1].componentPixels) :
          /\ p % width < width - 1
          /\ p + width + 1 \in Range(components[2].componentPixels)

\* The components found so far that push a box, and the place in objects of
\* the box component j pushes.
Emitting == {j \in 1..Len(components) : Refine(components[j], data, width, height) # <<>>}

ObjectIndexOf(j) == Cardinality({k \in Emitting : k <= j})

\* Every component is listed after the components whose first pixel, in
\* row-major order, comes before its own, and the boxes are listed in the
\* order of their components.
ScanInDiscoveryOrder ==
    Dilated =>
        /\ \A j \in 1..Len(components) :
              /\ \A p \in Range(components[j].componentPixels) :
                    components[j].componentPixels[1] <= p
              /\ \A k \in 1..(j - 1) :
                    components[k].componentPixels[1] < components[j].componentPixels[1]
        /\ Len(objects) = Cardinality(Emitting)
        /\ \A j \in Emitting :
              objects[ObjectIndexOf(j)] = Refine(components[j], data, width, height)[1]

\* The record at place i of a call's result is the record of callback i, whose
\* id carries the index i - 1.
ResultInTaskOrder ==
    \A c \in 1..Len(files) :
        (calls[c].status = "resolved" /\ calls[c].error = "none") =>
            /\ Len(calls[c].value) = Len(tasks[c])
            /\ \A i \in 1..Len(tasks[c]) :
                  /\ BoxOf(calls[c].value[i]) = tasks[c][i].obj
                  /\ \E t \in 0..MaxNow :
                        calls[c].value[i].id =
                            <<"obj", "-", files[c].sourceId, "-">> \o Digits(i - 1)
                                \o <<"-">> \o Digits(t)

\* objects.map hands box i to callback i.
TasksInObjectOrder ==
    (pc = "extract" /\ pc' = "idle") =>
        /\ Len(tasks'[cur]) = Len(objects)
        /\ \A i \in 1..Len(objects) : tasks'[cur][i].obj = objects[i]

C12_NoiseFilter ==
    pc = "filtered" =>
        LET c == components[1]
            area == (c.maxX - c.minX + 1) * (c.maxY - c.minY + 1)
            count == Len(c.componentPixels)
        IN /\ objects # <<>> => (area >= 901 \/ count >= 201)
           /\ (area = 900 /\ count = 200) => objects = <<>>
           /\ area = 930 => Len(objects) = 1

\* The component of 30 x 30 with 200 pixels has gone through the filter.
C12_Witness ==
    /\ pc = "filtered"
    /\ components[1].maxX = 29
    /\ components[1].maxY = 29
    /\ Len(components[1].componentPixels) = 200
    /\ objects = <<>>

\* The pixels of the bitmap in hand whose alpha exceeds 20 and that lie in the
\* box of component c, as (x, y) pairs.
OpaqueIn(c) ==
    LET alpha == files[cur].bitmap.alpha
    IN {<<p % width, p \div width>> : p \in {q \in DOMAIN alpha :
            /\ alpha[q] >= 21
            /\ c.minX <= q % width /\ q % width <= c.maxX
            /\ c.minY <= q \div width /\ q \div width <= c.maxY}}

\* C13: the tight box of every component that passes the filter is the
\* smallest rectangle that holds every pixel of alpha above 20 of the bitmap
\* inside the component's dilated box.
C13_TightBoxMinimal ==
    Dilated =>
        \A j \in 1..Len(components) :
            PassesNoiseFilter(components[j]) =>
                LET t == TightBox(components[j], data, width, height)
                    F == OpaqueIn(components[j])
                IN /\ t.hasContent <=> F # {}
                   /\ \A p \in F : /\ t.rMinX <= p[1] /\ p[1] <= t.rMaxX
                                   /\ t.rMinY <= p[2] /\ p[2] <= t.rMaxY
                   /\ F # {} => /\ \E p \in F : p[1] = t.rMinX
                                /\ \E p \in F : p[1] = t.rMaxX
                                /\ \E p \in F : p[2] = t.rMinY
                                /\ \E p \in F : p[2] = t.rMaxY

\* A component that passes the filter, with two opaque pixels on different
\* columns and rows, both off the edges of its dilated box.
C13_Witness ==
    /\ Dilated
    /\ \E j \in 1..Len(components) :
          /\ PassesNoiseFilter(components[j])
          /\ LET t == TightBox(components[j], data, width, height)
             IN /\ components[j].minX < t.rMinX /\ t.rMinX < t.rMaxX
                /\ t.rMaxX < components[j].maxX
                /\ components[j].minY < t.rMinY /\ t.rMinY < t.rMaxY
                /\ t.rMaxY < components[j].maxY

\* The tight boxes the scan has padded so far.
TightBoxes ==
    {TightBox(components[j], data, width, height) :
        j \in {k \in 1..Len(components) : PassesNoiseFilter(components[k])}}

\* C14: the padded box is the tight box moved out by exactly 10 pixels on
\* every side and cut at the bitmap: minX' = max(0, minX - 10), minY' =
\* max(0, minY - 10), maxX' = min(width - 1, maxX + 10), maxY' =
\* min(height - 1, maxY + 10); no coordinate is negative or out of range.
C14_PaddingClamped ==
    Dilated =>
        \A t \in TightBoxes :
            t.hasContent =>
                LET f == PaddedBox(t, width, height)
                IN /\ f.minX = (IF t.rMinX < 10 THEN 0 ELSE t.rMinX - 10)
                   /\ f.minY = (IF t.rMinY < 10 THEN 0 ELSE t.rMinY - 10)
                   /\ f.maxX = (IF t.rMaxX + 10 > width - 1 THEN width - 1 ELSE t.rMaxX + 10)
                   /\ f.maxY = (IF t.rMaxY + 10 > height - 1 THEN height - 1 ELSE t.rMaxY + 10)
                   /\ 0 <= f.minX /\ f.minX <= f.maxX /\ f.maxX <= width - 1
                   /\ 0 <= f.minY /\ f.minY <= f.maxY /\ f.maxY <= height - 1

\* A tight box at the left edge of the bitmap and more than 10 pixels off the
\* right edge: the padding is cut on the left and whole on the right.
C14_Witness ==
    /\ Dilated
    /\ \E t \in TightBoxes :
          /\ t.hasContent
          /\ t.rMinX = 0
          /\ t.rMaxX + 10 < width - 1
          /\ PaddedBox(t, width, height).minX = 0
          /\ PaddedBox(t, width, height).maxX = t.rMaxX + 10

\* The padded box of component j, before the parity step.
PaddedOf(j) == PaddedBox(TightBox(components[j], data, width, height), width, height)

\* C20: the parity step grows an odd width by moving maxX one to the right
\* when maxX < width - 1, and only otherwise moves minX one to the left when
\* minX > 0; the same rule holds for the height by itself; an even dimension
\* is left as it is.
C20_ParityRule ==
    Dilated =>
        \A j \in Emitting :
            LET f == PaddedOf(j)
                e == objects[ObjectIndexOf(j)]
            IN /\ (BoxWidth(f) % 2 = 1 /\ f.maxX < width - 1) =>
                      (e.maxX = f.maxX + 1 /\ e.minX = f.minX)
               /\ (BoxWidth(f) % 2 = 1 /\ f.maxX >= width - 1 /\ f.minX > 0) =>
                      (e.maxX = f.maxX /\ e.minX = f.minX - 1)
               /\ BoxWidth(f) % 2 = 0 => (e.maxX = f.maxX /\ e.minX = f.minX)
               /\ (BoxHeight(f) % 2 = 1 /\ f.maxY < height - 1) =>
                      (e.maxY = f.maxY + 1 /\ e.minY = f.minY)
               /\ (BoxHeight(f) % 2 = 1 /\ f.maxY >= height - 1 /\ f.minY > 0) =>
                      (e.maxY = f.maxY /\ e.minY = f.minY - 1)
               /\ BoxHeight(f) % 2 = 0 => (e.maxY = f.maxY /\ e.minY = f.minY)

\* One box has grown to the right and downwards, another one to the left and
\* upwards, both from an odd width and height.
C20_Witness ==
    /\ pc = "extract"
    /\ \E j \in Emitting :
          /\ BoxWidth(PaddedOf(j)) % 2 = 1 /\ BoxHeight(PaddedOf(j)) % 2 = 1
          /\ objects[ObjectIndexOf(j)].maxX = PaddedOf(j).maxX + 1
          /\ objects[ObjectIndexOf(j)].maxY = PaddedOf(j).maxY + 1
    /\ \E j \in Emitting :
          /\ BoxWidth(PaddedOf(j)) % 2 = 1 /\ BoxHeight(PaddedOf(j)) % 2 = 1
          /\ objects[ObjectIndexOf(j)].minX = PaddedOf(j).minX - 1
          /\ objects[ObjectIndexOf(j)].minY = PaddedOf(j).minY - 1

\* C19: no two records a call returns have the same id, whatever the
\* timestamps of the callbacks.
C19_UniqueIds ==
    \A c \in 1..Len(files) :
        calls[c].status = "resolved" =>
            \A i, j \in 1..Len(calls[c].value) :
                i # j => calls[c].value[i].id # calls[c].value[j].id

\* A call has returned two records made at the same timestamp.
C19_Witness ==
    \E c \in 1..Len(files) :
        /\ calls[c].status = "resolved"
        /\ Len(calls[c].value) = 2
        /\ \E t \in 0..MaxNow :
              /\ calls[c].value[1].id = ObjectId(files[c].sourceId, 0, t)
              /\ calls[c].value[2].id = ObjectId(files[c].sourceId, 1, t)

\* The geometry of a returned record.
Geometry(r) == [x |-> r.x, y |-> r.y, width |-> r.width, height |-> r.height]

C17_ExtractionRoundTrip ==
    \A c \in 1..Len(files) :
        \A k \in 1..Len(tasks[c]) :
            tasks[c][k].state = "fulfilled" =>
                LET r == tasks[c][k].value[1]
                    o == tasks[c][k].obj
                    b == blobs[r.url]
                    alpha == files[c].bitmap.alpha
                IN /\ r.x = o.minX /\ r.y = o.minY
                   /\ r.width = o.maxX - o.minX + 1
                   /\ r.height = o.maxY - o.minY + 1
                   /\ b.width = r.width /\ b.height = r.height
                   /\ DOMAIN b.pixels = 0..(r.width * r.height - 1)
                   /\ \A i \in 0..(r.width - 1), j \in 0..(r.height - 1) :
                         LET q == (r.y + j) * files[c].bitmap.width + (r.x + i)
                         IN b.pixels[j * r.width + i] =
                                (IF q \in DOMAIN alpha THEN alpha[q] ELSE 0)

\* A record of a box away from the origin whose bitmap holds an opaque pixel.
C17_Witness ==
    \E c \in 1..Len(files) :
        \E k \in 1..Len(tasks[c]) :
            /\ tasks[c][k].state = "fulfilled"
            /\ tasks[c][k].value[1].x > 0
            /\ tasks[c][k].value[1].y > 0
            /\ \E q \in DOMAIN blobs[tasks[c][k].value[1].url].pixels :
                  blobs[tasks[c][k].value[1].url].pixels[q] = 21

\* The scene of the bitmap in files.
Scene == CHOOSE s \in Scenes : files[1].bitmap = SceneBitmap(s)

\* The transparent columns and rows between the two blocks of a scene; below
\* 1 when the blocks share a column or a row.
GapX(s) == Abs(s.a[1] - s.b[1]) - BlockSide
GapY(s) == Abs(s.a[2] - s.b[2]) - BlockSide

\* The squared distance of the centres of the two blocks.
CentreDistance2(s) ==
    ((s.a[1] - s.b[1]) * (s.a[1] - s.b[1])) + ((s.a[2] - s.b[2]) * (s.a[2] - s.b[2]))

\* The scan has found n components and pushed n boxes, and a call that
\* returns its records returns n.
Yields(n) ==
    /\ pc = "extract" => (Len(components) = n /\ Len(objects) = n)
    /\ (calls[1].status = "resolved" /\ calls[1].error = "none") => Len(calls[1].value) = n

C16_NonMerge ==
    CentreDistance2(Scene) = 60 * 60 =>
        /\ Yields(2)
        /\ (calls[1].status = "resolved" /\ calls[1].error = "none") =>
              BoxOf(calls[1].value[1]) # BoxOf(calls[1].value[2])

\* The pair with one block in the corner of the canvas has come back as two
\* records.
C16_Witness ==
    /\ CentreDistance2(Scene) = 60 * 60
    /\ \E p \in {0, CanvasSide * CanvasSide - 1} : p \in DOMAIN files[1].bitmap.alpha
    /\ calls[1].status = "resolved"
    /\ Len(calls[1].value) = 2

EnqueuedOnce ==
    Dilated =>
        /\ \A j \in 1..Len(components) :
              /\ Cardinality(Range(components[j].queue)) = Len(components[j].queue)
              /\ components[j].head = Len(components[j].queue)
              /\ components[j].componentPixels = components[j].queue
              /\ \A k \in 1..(j - 1) :
                    Range(components[k].queue) \cap Range(components[j].queue) = {}
        /\ SetPixels(visited, width * height) =
              UNION {Range(components[j].queue) : j \in 1..Len(components)}

\* When the scan is over it has passed every position, and the pixels that
\* have left a queue are the set pixels of the dilated map.
ScanExhausted ==
    pc = "extract" =>
        /\ scanIdx = width * height
        /\ UNION {Range(components[j].componentPixels) : j \in 1..Len(components)} =
              SetPixels(dilatedMap, width * height)

\* The raster scan only moves forward.
ScanAdvances == pc = "scan" => scanIdx' > scanIdx

\* C22: labeling terminates on every mask: no pixel index enters a queue
\* twice over the whole scan, every set pixel of the dilated map leaves a
\* queue exactly once, and the raster scan ends, having passed all
\* width * height positions.
C22_LabelingTerminates ==
    /\ [](EnqueuedOnce /\ ScanExhausted)
    /\ [][ScanAdvances]_vars
    /\ (pc = "scan") ~> (pc = "extract" /\ scanIdx = width * height)

\* A scan that has filled two components is over.
C22_Witness ==
    /\ pc = "extract"
    /\ Len(components) = 2
    /\ scanIdx = width * height

\* C23: every component of the dilated mask has a pixel of alpha above 20 in
\* its dilated bounding box (one of its own pixels, even), so the refit always
\* finds content: every component that passes the noise filter emits a box.
C23_ContentAlways ==
    Dilated =>
        /\ \A j \in 1..Len(components) :
              /\ OpaqueIn(components[j]) # {}
              /\ \E p \in Range(components[j].componentPixels) :
                    /\ p \in DOMAIN files[cur].bitmap.alpha
                    /\ files[cur].bitmap.alpha[p] >= 21
              /\ PassesNoiseFilter(components[j]) => j \in Emitting
        /\ Len(objects) =
              Cardinality({j \in 1..Len(components) : PassesNoiseFilter(components[j])})

\* Two components pass the filter, one of them around a single opaque pixel,
\* and both have emitted a box.
C23_Witness ==
    /\ pc = "extract"
    /\ Len(components) = 2
    /\ Len(objects) = 2
    /\ \A j \in 1..2 : PassesNoiseFilter(components[j])
    /\ \E j \in 1..2 : Cardinality(OpaqueIn(components[j])) = 1

\* The pixels of alpha above 20 among the pixels of component c itself.
OwnOpaque(c) ==
    {<<p % width, p \div width>> : p \in {q \in Range(c.componentPixels) :
        /\ q \in DOMAIN files[cur].bitmap.alpha
        /\ files[cur].bitmap.alpha[q] >= 21}}

\* C24: the tight box of a component that passes the filter is the smallest
\* rectangle around the component's own pixels of alpha above 20: a pixel of
\* another component never enlarges it, also when that pixel lies inside the
\* dilated bounding box of the first.
C24_OwnPixelsOnly ==
    Dilated =>
        \A j \in 1..Len(components) :
            PassesNoiseFilter(components[j]) =>
                LET t == TightBox(components[j], data, width, height)
                    own == OwnOpaque(components[j])
                IN /\ t.rMinX = SetMin({p[1] : p \in own})
                   /\ t.rMaxX = SetMax({p[1] : p \in own})
                   /\ t.rMinY = SetMin({p[2] : p \in own})
                   /\ t.rMaxY = SetMax({p[2] : p \in own})

\* C25: the box pushed for a component contains its padded box, which contains
\* its tight box: no edge moves inward in the padding or in the parity step,
\* and every pixel of alpha above 20 of the tight box lies inside the box
\* pushed.
C25_RegionContainsTight ==
    Dilated =>
        \A j \in Emitting :
            LET t == TightBox(components[j], data, width, height)
                f == PaddedOf(j)
                e == objects[ObjectIndexOf(j)]
            IN /\ e.minX <= f.minX /\ f.minX <= t.rMinX
               /\ e.minY <= f.minY /\ f.minY <= t.rMinY
               /\ e.maxX >= f.maxX /\ f.maxX >= t.rMaxX
               /\ e.maxY >= f.maxY /\ f.maxY >= t.rMaxY
               /\ \A p \in OpaqueIn(components[j]) :
                     /\ e.minX <= p[1] /\ p[1] <= e.maxX
                     /\ e.minY <= p[2] /\ p[2] <= e.maxY

\* A box that the parity step has widened beyond its padded box, whose tight
\* box reaches the padded box's right edge.
C25_Witness ==
    /\ pc = "extract"
    /\ \E j \in Emitting :
          /\ objects[ObjectIndexOf(j)].minX < PaddedOf(j).minX
          /\ PaddedOf(j).maxX = TightBox(components[j], data, width, height).rMaxX

\* The bitmap of call c has a pixel of alpha above 20.
HasOpaque(c) ==
    \E q \in DOMAIN files[c].bitmap.alpha : files[c].bitmap.alpha[q] >= 21

\* The bitmap of call c is at least 16 pixels wide and 16 pixels high.
AtLeast16(c) == files[c].bitmap.width >= 16 /\ files[c].bitmap.height >= 16

\* C26: on a bitmap of width and height 16 or more the noise filter rejects
\* no component: every component of the dilated mask has 256 pixels or more,
\* so a bitmap with a pixel of alpha above 20 has a component, every
\* component emits a box, and a call that returns without failure returns at
\* least one record.
C26_FilterNeverRejects ==
    /\ (Dilated /\ AtLeast16(cur)) =>
          /\ \A j \in 1..Len(components) :
                /\ Len(components[j].componentPixels) >= 256
                /\ PassesNoiseFilter(components[j])
                /\ j \in Emitting
          /\ (pc = "extract" /\ HasOpaque(cur)) =>
                (Len(components) >= 1 /\ Len(objects) = Len(components))
    /\ \A c \in 1..Len(files) :
          (/\ AtLeast16(c)
           /\ HasOpaque(c)
           /\ calls[c].status = "resolved"
           /\ calls[c].error = "none") => Len(calls[c].value) >= 1

\* A call on a 16x16 bitmap has returned the record of its one component,
\* and a scan of a 16x16 bitmap has found a component of exactly 256 pixels.
C26_Witness ==
    \/ /\ pc = "extract"
       /\ width = 16
       /\ height = 16
       /\ Len(components) = 1
       /\ Len(components[1].componentPixels) = 256
       /\ Len(objects) = 1
    \/ /\ files[1].bitmap.width = 16
       /\ files[1].bitmap.height = 16
       /\ calls[1].status = "resolved"
       /\ calls[1].error = "none"
       /\ Len(calls[1].value) = 1

\* Call c has been made and has not settled.
InProgress(c) == calls[c].status \in {"sync", "await"}

\* C27: isSegmenting is true exactly while a segmentImage call is in progress:
\* true when at least one call has started and not settled, false once every
\* call has settled, by return or by failure, also when two calls overlap.
C27_BusyWhileAnyCall ==
    isSegmenting = (\E c \in 1..Len(files) : InProgress(c))

\* The processImage call p has posted its request to the worker.
Posted(p) == ~(promises[p].state = "rejected" /\ promises[p].by = 0)

\* The handler of the worker that serves the request of call p: messages are
\* dispatched in the order in which they were posted.
JobOf(p) == Cardinality({q \in 1..p : Posted(q)})

\* C28: when processImage is called while an earlier call is pending on the
\* same worker, every promise settles once, with the 'complete' or 'error'
\* message that the worker posted for its own request: a fulfilled promise
\* holds the bitmap of its own imageUrl, never the result of the other request.
C28_OwnResult ==
    \A p \in 1..Len(promises) :
        /\ promises[p].settled <= 1
        /\ (Posted(p) /\ promises[p].state # "pending") =>
              /\ promises[p].by = JobOf(p)
              /\ promises[p].state = "fulfilled" =>
                    promises[p].bitmap = <<RemoveBackground(promises[p].imageUrl)>>

\* C29: the worker loads the model and the processor at most once, whatever
\* the order of the 'process' messages and of the loads' completions.
C29_LoadsOnce == modelLoads <= 1 /\ processorLoads <= 1

\* The records that the segmentImage calls of the first n files returned.
RECURSIVE Accumulated(_)
Accumulated(n) == IF n = 0 THEN <<>> ELSE Accumulated(n - 1) \o calls[n].value

\* The handleFiles call is over: every promise it awaited has settled and its
\* last continuation has run.
Finished == handle.pc = "done" /\ Len(files) >= 1

\* Background removal of some file has failed.
RemovalFailed == \E p \in 1..Len(promises) : promises[p].state = "rejected"

\* File by file: the request for a file is made only when the segmentImage
\* call of the file before it has settled, a segmentImage call runs only
\* when the request of its own file has fulfilled and no later request
\* exists, and at most one request is pending.
OneAtATime ==
    /\ \A p \in 2..Len(promises) : calls[p - 1].status = "resolved"
    /\ \A c \in 1..Len(files) :
          InProgress(c) =>
              /\ Len(promises) = c
              /\ promises[c].state = "fulfilled"
              /\ promises[c].bitmap = <<RemoveBackground(FileUrl(c))>>
    /\ Cardinality({p \in 1..Len(promises) : promises[p].state = "pending"}) <= 1
    /\ Len(jobs) + Len(inbox) = Len(promises)

=============================================================================
